---- MODULE Spec2Model ----
(***************************************************************************)
(* Model of kolahimself/explosive-choices: the OutcomeAnalyzer class of    *)
(* outcome_evaluation.py and its caller in streamlit_app.py.               *)
(*                                                                         *)
(* Python floats are modelled as exact rationals <<n, d>> in lowest terms  *)
(* (d > 0), so equalities below are the exact-arithmetic reading of the    *)
(* code's floating-point expressions.                                      *)
(***************************************************************************)
EXTENDS Integers, Sequences, FiniteSets, TLC

VARIABLES table, args, loads, last, objs

vars == <<table, args, loads, last, objs>>

(***************************************************************************)
(* Bounds of the model.                                                    *)
(***************************************************************************)
MaxSquares == 4    \* largest board size analysed
MaxBet == 2        \* largest bet amount analysed
MaxLoads == 2      \* cap on the counter of read_encrypted calls

(***************************************************************************)
(* Rational arithmetic standing for Python's float arithmetic.             *)
(***************************************************************************)
Abs(n) == IF n < 0 THEN -n ELSE n

RECURSIVE GCD(_, _)
GCD(a, b) == IF b = 0 THEN a ELSE GCD(b, a % b)

Rat(n, d) ==
    LET g == GCD(Abs(n), Abs(d))
        s == IF d < 0 THEN -1 ELSE 1
    IN  <<(s * n) \div g, (s * d) \div g>>

RInt(n) == <<n, 1>>

RAdd(a, b) == Rat(a[1] * b[2] + b[1] * a[2], a[2] * b[2])

RSub(a, b) == Rat(a[1] * b[2] - b[1] * a[2], a[2] * b[2])

RMul(a, b) == Rat(a[1] * b[1], a[2] * b[2])

\* Defined only for b # 0; every use below tests the divisor first.
RDiv(a, b) == Rat(a[1] * b[2], a[2] * b[1])

RLeq(a, b) == a[1] * b[2] <= b[1] * a[2]

(***************************************************************************)
(* OutcomeAnalyzer.__init__, lines 49-63: the fresh object.                *)
(***************************************************************************)
DefaultBet == 1

InitialInsights ==
    [SuccessRate |-> RInt(0), FailureRate |-> RInt(0),
     Multiplier |-> RInt(0), ExpectedValue |-> RInt(0)]

NewObject(num_bombs, uncovered_spaces, bet_amount, amount_of_squares) ==
    [num_bombs |-> num_bombs,
     uncovered_spaces |-> uncovered_spaces,
     amount_of_squares |-> amount_of_squares,
     bet_amount |-> bet_amount,
     insights |-> InitialInsights,
     covered_spaces |-> amount_of_squares - uncovered_spaces,
     query_x |-> 0,
     calls |-> <<>>,
     raised |-> "none"]

(***************************************************************************)
(* calculate_success_failure_rates, lines 83-91.                           *)
(***************************************************************************)
\* Line 84 with the denominator not shrinking: drawing with replacement.
RateFactorWithReplacement(self, x, i) ==
    RMul(x, RDiv(RInt(self.amount_of_squares - self.num_bombs - i),
                 RInt(self.amount_of_squares)))

\* The lambda of line 84, applied to accumulator x and index i.
RateFactor(self, x, i) ==
    RMul(x, RDiv(RInt(self.amount_of_squares - self.num_bombs - i),
                 RInt(self.amount_of_squares - i)))

\* functools.reduce over range(uncovered_spaces), from index i with accumulator x.
RECURSIVE Reduce(_, _, _)
Reduce(self, x, i) ==
    IF i >= self.uncovered_spaces THEN x
    ELSE Reduce(self, RateFactor(self, x, i), i + 1)

\* Some index of range(uncovered_spaces) divides by zero (int / int in Python raises).
RatesDivideByZero(self) ==
    \E i \in 0..(self.uncovered_spaces - 1) : self.amount_of_squares - i = 0

\* Line 91 taking the complement on the probability scale.
FailureRateOfUnit(success) == RSub(RInt(1), success)

FailureRateOf(success) == RSub(RInt(100), success)

calculate_success_failure_rates(self) ==
    LET entered == [self EXCEPT !.calls = Append(@, "calculate_success_failure_rates")]
    IN  IF RatesDivideByZero(self)
        THEN [entered EXCEPT !.raised = "ZeroDivisionError"]
        ELSE LET success == RMul(Reduce(self, RInt(1), 0), RInt(100))
             IN  [entered EXCEPT !.insights.SuccessRate = success,
                                 !.insights.FailureRate = FailureRateOf(success)]

(***************************************************************************)
(* predict_multiplier, lines 105-138.                                      *)
(***************************************************************************)
\* Lines 112-126: decrypt the data source, group its rows by column A and
\* index the groups by num_bombs; a missing key raises KeyError.  The rows
\* (B, C) of a group are tuples <<B, C>> in stored order.
HasPacket(data_packets, num_bombs) == num_bombs \in DOMAIN data_packets

load_sample_data_packet(data_packets, num_bombs) == data_packets[num_bombs]

\* scipy.interpolate.interp1d(x, y, fill_value='extrapolate'), lines 134-135:
\* kind='linear', assume_sorted=False.

\* argsort of the x column: 1-based position of row i once the rows are ordered by B.
RankOf(packet, i) ==
    1 + Cardinality({j \in 1..Len(packet) :
                        \/ packet[j][1] < packet[i][1]
                        \/ packet[j][1] = packet[i][1] /\ j < i})

\* Lines 134-135 with assume_sorted=True: the rows are used in stored order.
SortByXAssumeSorted(packet) == packet

SortByX(packet) ==
    [k \in 1..Len(packet) |->
        packet[CHOOSE i \in 1..Len(packet) : RankOf(packet, i) = k]]

\* numpy.searchsorted(x, x_new), side='left': a 0-based insertion index.
searchsorted(sorted, x_new) ==
    Cardinality({i \in 1..Len(sorted) : sorted[i][1] < x_new})

Clip(v, lo, hi) == IF v < lo THEN lo ELSE IF v > hi THEN hi ELSE v

\* The value at x_new of the line through rows lo + 1 and hi + 1 of sorted.
SegmentAt(sorted, lo, hi, x_new) ==
    LET x_lo == sorted[lo + 1][1]
        x_hi == sorted[hi + 1][1]
        y_lo == sorted[lo + 1][2]
        y_hi == sorted[hi + 1][2]
        slope == RDiv(RSub(y_hi, y_lo), RInt(x_hi - x_lo))
    IN  RAdd(RMul(slope, RInt(x_new - x_lo)), y_lo)

\* Lines 134-135 without fill_value='extrapolate', evaluated as numpy.interp
\* does: the edge sample's value outside the sampled range.
CallLinearClamped(sorted, x_new) ==
    LET hi == Clip(searchsorted(sorted, x_new), 1, Len(sorted) - 1)
    IN  IF x_new < sorted[1][1] THEN sorted[1][2]
        ELSE IF x_new > sorted[Len(sorted)][1] THEN sorted[Len(sorted)][2]
        ELSE SegmentAt(sorted, hi - 1, hi, x_new)

\* interp1d._call_linear on a sorted sample sequence of at least two rows.
CallLinear(sorted, x_new) ==
    LET hi == Clip(searchsorted(sorted, x_new), 1, Len(sorted) - 1)
        lo == hi - 1
    IN  SegmentAt(sorted, lo, hi, x_new)

interp1d(packet, x_new) == CallLinear(SortByX(packet), x_new)

\* Line 138: the value at which the predictor is queried.
QueryValue(self) == self.covered_spaces

\* Line 126 as data_packets.get(num_bombs): a missing group leaves the
\* placeholder multiplier in place and the constructor carries on.
predict_multiplier_defaulting(self, data_packets) ==
    LET entered == [self EXCEPT !.calls = @ \o <<"predict_multiplier",
                                                   "load_sample_data_packet">>]
    IN  IF ~HasPacket(data_packets, self.num_bombs)
        THEN entered
        ELSE LET data_packet == load_sample_data_packet(data_packets, self.num_bombs)
                 x == QueryValue(self)
             IN  [entered EXCEPT !.calls = Append(@, "interp1d"),
                                 !.query_x = x,
                                 !.insights.Multiplier = interp1d(data_packet, x)]

predict_multiplier(self, data_packets) ==
    LET entered == [self EXCEPT !.calls = @ \o <<"predict_multiplier",
                                                   "load_sample_data_packet">>]
    IN  IF ~HasPacket(data_packets, self.num_bombs)
        THEN [entered EXCEPT !.raised = "KeyError"]
        ELSE LET data_packet == load_sample_data_packet(data_packets, self.num_bombs)
                 x == QueryValue(self)
             IN  [entered EXCEPT !.calls = Append(@, "interp1d"),
                                 !.query_x = x,
                                 !.insights.Multiplier = interp1d(data_packet, x)]

(***************************************************************************)
(* calculate_expected_value, lines 154-163.                                *)
(***************************************************************************)
\* Line 160 without the final division: an absolute amount, not a rate.
ExpectedValueAbsolute(success_rate, failure_rate, multiplier, bet_amount) ==
    LET prob_of_winning == RDiv(success_rate, RInt(100))
        prob_of_losing == RDiv(failure_rate, RInt(100))
    IN  RAdd(RMul(prob_of_winning, RSub(multiplier, RInt(bet_amount))),
             RMul(prob_of_losing, RInt(-bet_amount)))

ExpectedValueOf(success_rate, failure_rate, multiplier, bet_amount) ==
    LET prob_of_winning == RDiv(success_rate, RInt(100))
        prob_of_losing == RDiv(failure_rate, RInt(100))
    IN  RDiv(RAdd(RMul(prob_of_winning, RSub(multiplier, RInt(bet_amount))),
                  RMul(prob_of_losing, RInt(-bet_amount))),
             RInt(bet_amount))

calculate_expected_value(self) ==
    LET entered == [self EXCEPT !.calls = Append(@, "calculate_expected_value")]
    IN  IF self.bet_amount = 0
        THEN [entered EXCEPT !.raised = "ZeroDivisionError"]
        ELSE [entered EXCEPT !.insights.ExpectedValue =
                  ExpectedValueOf(self.insights.SuccessRate, self.insights.FailureRate,
                                  self.insights.Multiplier, self.bet_amount)]

(***************************************************************************)
(* OutcomeAnalyzer.__init__, lines 49-72: the three steps in order; an     *)
(* exception raised by a step leaves the constructor at once.              *)
(***************************************************************************)
OutcomeAnalyzer(num_bombs, uncovered_spaces, bet_amount, amount_of_squares, data_packets) ==
    LET o0 == NewObject(num_bombs, uncovered_spaces, bet_amount, amount_of_squares)
        o1 == calculate_success_failure_rates(o0)
        o2 == predict_multiplier(o1, data_packets)
        o3 == calculate_expected_value(o2)
    IN  IF o1.raised # "none" THEN o1
        ELSE IF o2.raised # "none" THEN o2
        ELSE o3

\* The constructor returned an object to its caller.
Returned(self) == self.raised = "none"

Called(self, name) == \E k \in 1..Len(self.calls) : self.calls[k] = name

\* The constructor call decrypted and parsed the data source (line 112).
Loaded(self) == Called(self, "load_sample_data_packet")

\* The constructor call queried the interpolator (line 138).
Queried(self) == Called(self, "interp1d")

(***************************************************************************)
(* The data source assets/dmsc.crypt: num_bombs (column A) -> rows <<B, C>>*)
(* in stored order.  Every group holds at least two rows with distinct B.  *)
(***************************************************************************)
PacketA == << <<1, <<1, 1>> >>, <<2, <<3, 2>> >>, <<3, <<3, 1>> >> >>

PacketB == << <<3, <<3, 1>> >>, <<1, <<1, 1>> >>, <<2, <<3, 2>> >> >>

PacketC == << <<2, <<2, 1>> >>, <<0, <<5, 1>> >> >>

PacketD == << <<0, <<1, 1>> >>, <<3, <<2, 1>> >>, <<2, <<4, 1>> >> >>

PacketE == << <<2, <<3, 2>> >>, <<4, <<7, 2>> >> >>

Packets == {PacketA, PacketB, PacketC, PacketD, PacketE}

KeySets == {{1}, {1, 2}}

Tables == UNION {[ks -> Packets] : ks \in KeySets}

(***************************************************************************)
(* Inputs of an analysis.                                                  *)
(***************************************************************************)
Squares == 0..MaxSquares

Bombs == (-1)..MaxSquares

Uncovered == (-1)..(MaxSquares + 1)

Bets == (-1)..MaxBet

Arguments ==
    [num_bombs : Bombs, uncovered_spaces : Uncovered,
     bet_amount : Bets, amount_of_squares : Squares]

(***************************************************************************)
(* State machine.                                                          *)
(*   table  the contents of the data source                                *)
(*   args   the values the caller passes to the constructor                *)
(*   loads  how many times the data source has been decrypted and parsed   *)
(*   last   <<self>> as the most recent constructor call left it, or <<>>  *)
(*   objs   the analyzers their callers hold                               *)
(***************************************************************************)
LoadsAfter(self) == loads + (IF Loaded(self) THEN 1 ELSE 0)

\* streamlit_app.py, lines 32-44: the widget values of a session.
Init ==
    /\ table \in Tables
    /\ args \in Arguments
    /\ loads = 0
    /\ last = <<>>
    /\ objs = <<>>

\* streamlit_app.py, lines 46-56 and 98: one run of the script builds one
\* analyzer from the widget values into the local `scenario`; the previous
\* run's local is gone.
calculate_and_visualize(numbr_mines, spaces_uncovered, bet__amount, no_of_squares) ==
    LET scenario == OutcomeAnalyzer(numbr_mines, spaces_uncovered, bet__amount,
                                    no_of_squares, table)
    IN  /\ LoadsAfter(scenario) <= MaxLoads
        /\ loads' = LoadsAfter(scenario)
        /\ last' = <<scenario>>
        /\ objs' = IF Returned(scenario) THEN <<scenario>> ELSE <<>>
        /\ UNCHANGED <<table, args>>

Next ==
    calculate_and_visualize(args.num_bombs, args.uncovered_spaces,
                            args.bet_amount, args.amount_of_squares)

Spec == Init /\ [][Next]_vars

\* Lines 55-60 with the insights dict held by the class: every instance
\* writes to the same one.
AllocateShared(heap) == 1

\* Each instance owns a fresh attribute set and insights dict (lines 49-60).
Allocate(heap) == Len(heap) + 1

Store(heap, slot, self) ==
    IF slot = Len(heap) + 1 THEN Append(heap, self) ELSE [heap EXCEPT ![slot] = self]

\* A caller of the class that keeps every analyzer it has built and relies
\* on the defaults of line 39; the default board is scaled to MaxSquares.
DefaultSquares == MaxSquares

DefaultArguments(num_bombs, uncovered_spaces) ==
    [num_bombs |-> num_bombs, uncovered_spaces |-> uncovered_spaces,
     bet_amount |-> DefaultBet, amount_of_squares |-> DefaultSquares]

\* The data sources the sequences of constructor calls are run against.
SeqTables == {(1 :> PacketB) @@ (2 :> PacketC), (1 :> PacketD)}

InitSeq ==
    /\ table \in SeqTables
    /\ args = DefaultArguments(0, 0)
    /\ loads = 0
    /\ last = <<>>
    /\ objs = <<>>

Construct(num_bombs, uncovered_spaces) ==
    LET self == OutcomeAnalyzer(num_bombs, uncovered_spaces, DefaultBet,
                                DefaultSquares, table)
    IN  /\ LoadsAfter(self) <= MaxLoads
        /\ args' = DefaultArguments(num_bombs, uncovered_spaces)
        /\ loads' = LoadsAfter(self)
        /\ last' = <<self>>
        /\ objs' = IF Returned(self) THEN Store(objs, Allocate(objs), self) ELSE objs
        /\ UNCHANGED table

SeqBombs == 0..DefaultSquares

SeqUncovered == 0..(DefaultSquares + 1)

NextSeq ==
    \E m \in SeqBombs, u \in SeqUncovered : Construct(m, u)

SpecSeq == InitSeq /\ [][NextSeq]_vars

(***************************************************************************)
(* Vocabulary of the claims.                                               *)
(***************************************************************************)
Analysed == last # <<>>

Self == last[1]

\* boardSize, hazardCount and revealedCount satisfy the data model.
ValidCounts(self) ==
    /\ self.amount_of_squares > 0
    /\ 0 <= self.num_bombs
    /\ self.num_bombs < self.amount_of_squares
    /\ 0 <= self.uncovered_spaces
    /\ self.uncovered_spaces <= self.amount_of_squares - self.num_bombs

\* The scenario satisfies every constraint of the data model.
Valid(self) == ValidCounts(self) /\ self.bet_amount > 0

\* Product over i = 0 .. k-1 of (n - m - i) / (n - i).
RECURSIVE SafeDrawProduct(_, _, _)
SafeDrawProduct(n, m, k) ==
    IF k = 0 THEN RInt(1)
    ELSE RMul(SafeDrawProduct(n, m, k - 1), Rat(n - m - (k - 1), n - (k - 1)))

RECURSIVE Binomial(_, _)
Binomial(n, k) ==
    IF k = 0 THEN 1
    ELSE IF k > n THEN 0
    ELSE Binomial(n - 1, k - 1) + Binomial(n - 1, k)

\* C1: for every scenario with 0 <= hazardCount < boardSize and
\* 0 <= revealedCount <= boardSize - hazardCount, the success rate is 100
\* times the product over i = 0 .. revealedCount-1 of
\* (boardSize - hazardCount - i) / (boardSize - i), which is the
\* hypergeometric probability of drawing no hazard; revealedCount = 0 gives
\* success rate 100 and failure rate 0.
C1_SuccessRateIsProduct ==
    (Analysed /\ ValidCounts(Self)) =>
        LET n == Self.amount_of_squares
            m == Self.num_bombs
            k == Self.uncovered_spaces
        IN  /\ Called(Self, "calculate_success_failure_rates")
            /\ Self.insights.SuccessRate = RMul(RInt(100), SafeDrawProduct(n, m, k))
            /\ Self.insights.SuccessRate = Rat(100 * Binomial(n - m, k), Binomial(n, k))
            /\ k = 0 => /\ Self.insights.SuccessRate = RInt(100)
                        /\ Self.insights.FailureRate = RInt(0)

C1_Witness ==
    /\ Analysed
    /\ ValidCounts(Self)
    /\ Self.uncovered_spaces >= 2
    /\ Self.num_bombs >= 1
    /\ Self.insights.SuccessRate = Rat(100, 2)

\* C9: for every valid scenario the success and failure rates add up to 100
\* and both lie in the closed range [0, 100].
C9_RatesAreComplementary ==
    (Analysed /\ ValidCounts(Self)) =>
        /\ RAdd(Self.insights.SuccessRate, Self.insights.FailureRate) = RInt(100)
        /\ RLeq(RInt(0), Self.insights.SuccessRate)
        /\ RLeq(Self.insights.SuccessRate, RInt(100))
        /\ RLeq(RInt(0), Self.insights.FailureRate)
        /\ RLeq(Self.insights.FailureRate, RInt(100))

C9_Witness ==
    /\ Analysed
    /\ Valid(Self)
    /\ Returned(Self)
    /\ Self.insights.SuccessRate = Rat(100, 4)
    /\ Self.insights.FailureRate = RInt(75)

(***************************************************************************)
(* Interpolation claims.                                                   *)
(***************************************************************************)
Rows(packet) == {packet[i] : i \in 1..Len(packet)}

MinX(packet) == CHOOSE x \in {r[1] : r \in Rows(packet)} :
                    \A r \in Rows(packet) : x <= r[1]

MaxX(packet) == CHOOSE x \in {r[1] : r \in Rows(packet)} :
                    \A r \in Rows(packet) : r[1] <= x

\* Rows a and b are neighbours on the X axis, a to the left of b.
Adjacent(packet, a, b) ==
    /\ a \in Rows(packet)
    /\ b \in Rows(packet)
    /\ a[1] < b[1]
    /\ ~\E r \in Rows(packet) : a[1] < r[1] /\ r[1] < b[1]

\* The point (x, y) lies on the straight line through samples a and b.
OnLine(a, b, x, y) ==
    RMul(RSub(y, a[2]), RInt(b[1] - a[1])) = RMul(RSub(b[2], a[2]), RInt(x - a[1]))

\* Every order in which the rows of packet can be stored.
Reorderings(packet) ==
    {[i \in 1..Len(packet) |-> packet[p[i]]] :
        p \in {q \in [1..Len(packet) -> 1..Len(packet)] :
                  \A i, j \in 1..Len(packet) : q[i] = q[j] => i = j}}

\* C6: for a query value inside the sampled X range the predicted
\* multiplier lies on the straight line through the two adjacent samples
\* that bracket the query; a query at a stored sample's X returns that
\* sample's multiplier; and the stored order of the samples does not matter.
C6_InterpolatesBetweenBracketingSamples ==
    (Analysed /\ Queried(Self)) =>
        LET packet == table[Self.num_bombs]
            x == Self.query_x
            y == Self.insights.Multiplier
        IN  (MinX(packet) <= x /\ x <= MaxX(packet)) =>
                /\ \A a, b \in Rows(packet) :
                      (Adjacent(packet, a, b) /\ a[1] <= x /\ x <= b[1])
                          => OnLine(a, b, x, y)
                /\ \A r \in Rows(packet) : r[1] = x => y = r[2]
                /\ \A q \in Reorderings(packet) : interp1d(q, x) = y

C6_Witness ==
    /\ Analysed
    /\ Valid(Self)
    /\ Returned(Self)
    /\ table[Self.num_bombs] = PacketD
    /\ Self.query_x = 1
    /\ Self.insights.Multiplier = Rat(5, 2)

\* C7: for a query value below the minimum or above the maximum sampled X
\* the predicted multiplier is the linear extension of the nearest edge
\* segment: not the edge sample's multiplier (unless that segment is flat),
\* not an error, and possibly negative.
C7_ExtrapolatesEdgeSegment ==
    (Analysed /\ Loaded(Self) /\ HasPacket(table, Self.num_bombs)) =>
        LET packet == table[Self.num_bombs]
            x == Self.covered_spaces
            y == Self.insights.Multiplier
        IN  \A a, b \in Rows(packet) :
                (/\ Adjacent(packet, a, b)
                 /\ \/ x < MinX(packet) /\ a[1] = MinX(packet)
                    \/ x > MaxX(packet) /\ b[1] = MaxX(packet))
                    => /\ Queried(Self)
                       /\ Called(Self, "calculate_expected_value")
                       /\ OnLine(a, b, x, y)
                       /\ (x < a[1] /\ a[2] # b[2]) => y # a[2]
                       /\ (x > b[1] /\ a[2] # b[2]) => y # b[2]

C7_Witness ==
    /\ Analysed
    /\ Valid(Self)
    /\ Returned(Self)
    /\ Self.query_x > MaxX(table[Self.num_bombs])
    /\ Self.insights.Multiplier[1] < 0

\* C5: the value at which predict_multiplier queries the sample table is on
\* the axis of the table's X column B, the number of uncovered spaces.
C5_QueryOnTableAxis ==
    (Analysed /\ Queried(Self)) => Self.query_x = Self.uncovered_spaces

\* A valid scenario whose query value is the number of covered spaces and
\* differs from the number of uncovered spaces.
C5_Witness ==
    /\ Analysed
    /\ Valid(Self)
    /\ Returned(Self)
    /\ Self.query_x = Self.amount_of_squares - Self.uncovered_spaces
    /\ Self.query_x # Self.uncovered_spaces

(***************************************************************************)
(* Expected value, errors and the table load.                              *)
(***************************************************************************)
\* C8: for every valid scenario the expected value is
\* ((successRate/100) * (multiplier - betAmount)
\*   + (failureRate/100) * (-betAmount)) / betAmount
\* over the rates and multiplier of the same analysis; so for the same
\* board, hazards and reveals the results for betAmount 1 and betAmount 2
\* differ by half of (successRate/100) * multiplier.
C8_ExpectedValueFormula ==
    (Analysed /\ Valid(Self) /\ HasPacket(table, Self.num_bombs)) =>
        LET s == Self.insights.SuccessRate
            f == Self.insights.FailureRate
            m == Self.insights.Multiplier
            b == RInt(Self.bet_amount)
            win == RMul(RDiv(s, RInt(100)), RSub(m, b))
            lose == RMul(RDiv(f, RInt(100)), RSub(RInt(0), b))
            doubled == OutcomeAnalyzer(Self.num_bombs, Self.uncovered_spaces, 2,
                                       Self.amount_of_squares, table)
        IN  /\ Returned(Self)
            /\ Self.calls = <<"calculate_success_failure_rates", "predict_multiplier",
                              "load_sample_data_packet", "interp1d",
                              "calculate_expected_value">>
            /\ Self.insights.ExpectedValue = RDiv(RAdd(win, lose), b)
            /\ Self.bet_amount = 1 =>
                   RSub(Self.insights.ExpectedValue, doubled.insights.ExpectedValue)
                       = RDiv(RMul(RDiv(s, RInt(100)), m), RInt(2))

C8_Witness ==
    /\ Analysed
    /\ Valid(Self)
    /\ Returned(Self)
    /\ Self.bet_amount = 2
    /\ Self.insights.SuccessRate = Rat(100, 2)
    /\ Self.insights.Multiplier = Rat(3, 2)
    /\ Self.insights.ExpectedValue = Rat(-5, 8)

\* C3: when the table has no entry for the requested hazard count the
\* analysis ends in the missing-sample-data error (Python's KeyError from
\* the lookup): no multiplier is defaulted, the expected-value step never
\* runs and no result reaches the caller.
C3_MissingSampleDataIsAnError ==
    (Analysed /\ ~HasPacket(table, Self.num_bombs)) =>
        /\ ~Returned(Self)
        /\ objs = <<>>
        /\ ~Queried(Self)
        /\ ~Called(Self, "calculate_expected_value")
        /\ Self.insights.ExpectedValue = InitialInsights.ExpectedValue
        /\ \/ Self.raised = "KeyError"
           \/ ~Valid(Self) /\ RatesDivideByZero(Self)

C3_Witness ==
    /\ Analysed
    /\ Valid(Self)
    /\ ~HasPacket(table, Self.num_bombs)
    /\ Self.raised = "KeyError"
    /\ Loaded(Self)
    /\ objs = <<>>

\* C2: the constructor rejects every invalid scenario with InvalidScenario
\* before any calculation step runs and never returns a computed result.
C2_InvalidScenarioRejected ==
    (Analysed /\ ~Valid(Self)) =>
        /\ Self.raised = "InvalidScenario"
        /\ Self.calls = <<>>
        /\ objs = <<>>

\* An invalid scenario (more reveals than safe cells) for which the
\* constructor ran all three steps and handed a computed result to its caller.
C2_Witness ==
    /\ Analysed
    /\ ~Valid(Self)
    /\ Self.amount_of_squares > 0
    /\ 0 <= Self.num_bombs /\ Self.num_bombs < Self.amount_of_squares
    /\ Self.uncovered_spaces > Self.amount_of_squares - Self.num_bombs
    /\ Self.bet_amount > 0
    /\ Returned(Self)
    /\ Called(Self, "calculate_expected_value")
    /\ objs = <<Self>>
    /\ Self.insights.SuccessRate = RInt(0)

\* C4: over any sequence of analyses in one process the data source is
\* decrypted and parsed at most once.
C4_TableLoadedAtMostOnce == loads <= 1

\* Two successful analyses of a valid scenario, each with a load of its own.
C4_Witness ==
    /\ loads = 2
    /\ Analysed
    /\ Valid(Self)
    /\ Returned(Self)

(***************************************************************************)
(* Independence of analyses.                                               *)
(***************************************************************************)
SameInputs(a, b) ==
    /\ a.num_bombs = b.num_bombs
    /\ a.uncovered_spaces = b.uncovered_spaces
    /\ a.bet_amount = b.bet_amount
    /\ a.amount_of_squares = b.amount_of_squares

\* Equal inputs against the same table have given equal results.
Determined ==
    /\ \A i, j \in 1..Len(objs) :
          SameInputs(objs[i], objs[j]) => objs[i].insights = objs[j].insights
    /\ (Analysed /\ Returned(Self)) =>
          /\ objs # <<>>
          /\ objs[Len(objs)] = Self

\* A step changes neither the table nor any analyzer built earlier.
Unmodified ==
    /\ table' = table
    /\ Len(objs') >= Len(objs)
    /\ \A i \in 1..Len(objs) : objs'[i] = objs[i]

\* C10: analyses share no mutable state: after any sequence of earlier
\* analyses, successful or failed, two analyses with equal inputs against
\* the same table return equal results, and no analysis modifies the table
\* or the result of an earlier analysis.
C10_AnalysesShareNoState == []Determined /\ [][Unmodified]_vars

C10_Witness ==
    /\ Len(objs) = 2
    /\ SameInputs(objs[1], objs[2])
    /\ objs[1].insights.SuccessRate = Rat(100, 2)
    /\ Analysed
    /\ ~Returned(Self)

====
